---- MODULE Spec2Model ----
(***************************************************************************)
(* Entitlement resolution and payment settlement of the meditation bot     *)
(* (src/bot.py).  The store is the PostgreSQL schema created by init_db;   *)
(* every SQL statement is one atomic step, and a handler is interrupted    *)
(* only at its awaits, so each handler is a sequence of steps, one per     *)
(* store round trip.  Time is counted in days.                             *)
(***************************************************************************)
EXTENDS Integers, Sequences, FiniteSets, TLC

\* ------------------------------------------------------------------ bounds
MaxUsers == 2          \* telegram ids 1..MaxUsers talk to the bot
MaxPlans == 1          \* rows api_admin_create_plan may insert
MaxMeditations == 1    \* rows api_admin_create_meditation may insert
MaxSubs == 2           \* rows give_subscription may insert
MaxCharges == 2        \* distinct provider charges
MaxTime == 1           \* days the clock may advance
MaxDuration == 1       \* duration_days of a plan ranges over 1..MaxDuration

Tasks == {"h1", "h2"}  \* handler invocations that may be in flight together

TelegramIds == 1..MaxUsers
Durations == 1..MaxDuration
PlanIds == 1..(MaxPlans + 1)              \* one id more than can exist
MeditationIds == 1..(MaxMeditations + 1)  \* one id more than can exist

\* ------------------------------------------------------------- text values
\* A Python str is a sequence of one-character strings.
DigitChars == <<"0", "1", "2", "3", "4", "5", "6", "7", "8", "9">>

IsDigit(c) == \E i \in 1..10 : DigitChars[i] = c

DigitValue(c) == (CHOOSE i \in 1..10 : DigitChars[i] = c) - 1

\* str(n) for n >= 0, as the f-string f"plan_{plan_id}" formats it
RECURSIVE str(_)
str(n) == IF n < 10 THEN <<DigitChars[n + 1]>>
          ELSE str(n \div 10) \o <<DigitChars[(n % 10) + 1]>>

\* s.split(sep): the list of the pieces of s between the occurrences of sep
RECURSIVE split_from(_, _, _, _)
split_from(s, sep, i, cur) ==
    IF i > Len(s) THEN <<cur>>
    ELSE IF s[i] = sep THEN <<cur>> \o split_from(s, sep, i + 1, <<>>)
    ELSE split_from(s, sep, i + 1, Append(cur, s[i]))

split(s, sep) == split_from(s, sep, 1, <<>>)

\* int(s): the value of a run of decimal digits; anything else is a ValueError
RECURSIVE digits_value(_)
digits_value(s) == IF Len(s) = 0 THEN 0
                   ELSE 10 * digits_value(SubSeq(s, 1, Len(s) - 1)) + DigitValue(s[Len(s)])

int(s) == IF Len(s) > 0 /\ \A i \in 1..Len(s) : IsDigit(s[i])
          THEN [ok |-> TRUE, value |-> digits_value(s)]
          ELSE [ok |-> FALSE, value |-> 0]

\* f"plan_{plan_id}", the payload start and buy_plan put on an invoice
plan_payload(plan_id) == <<"p", "l", "a", "n", "_">> \o str(plan_id)

\* Payload tokens a PaymentConfirmed event may carry: the plan tokens the bot
\* issues, a token in another format with an id in it and a marker with no id.
Payloads == {plan_payload(i) : i \in PlanIds}
            \cup {<<"f", "o", "o", "_", "1">>,
                  <<"l", "i", "f", "e", "t", "i", "m", "e">>}

\* int(payload.split("_")[1]) of successful_payment: an IndexError when the
\* payload has no "_", a ValueError when the second piece is no number
payload_plan_id(payload) ==
    LET parts == split(payload, "_")
    IN  IF Len(parts) < 2 THEN [ok |-> FALSE, value |-> 0] ELSE int(parts[2])

\* Payload tokens of the events that follow the bot's own invoices, and a
\* package token: the word package, an underscore and the number of the package
HandlerPayloads == {plan_payload(i) : i \in PlanIds}
                   \cup {<<"p", "a", "c", "k", "a", "g", "e", "_", "1">>}

\* s.startswith(prefix)
startswith(s, prefix) ==
    Len(s) >= Len(prefix) /\ SubSeq(s, 1, Len(prefix)) = prefix

\* command.args of /start: None (written <<>>) for a bare /start, else the deep
\* link parameter: buy_<id> of a plan the catalog may hold or does not, and
\* buy_ with no number
StartArgs == {<<>>, <<"b", "u", "y", "_">>}
             \cup {<<"b", "u", "y", "_">> \o str(i) : i \in PlanIds}

\* command.args.startswith("buy_") and int(command.args.split("_")[1]) of
\* start: buy says the deep link is a purchase, ok that the number parsed
start_plan_id(args) ==
    IF args # <<>> /\ startswith(args, <<"b", "u", "y", "_">>)
    THEN LET r == int(split(args, "_")[2])
         IN  [buy |-> TRUE, ok |-> r.ok, value |-> r.value]
    ELSE [buy |-> FALSE, ok |-> FALSE, value |-> 0]

\* The words the filter of buy_plan asks message.text to start with, in Latin
\* letters
buy_text == <<"K", "u", "p", "i", "t", "'">>

\* message.text of the messages buy_plan gets: the words alone, or the words,
\* a "#" and the number of a plan
BuyTexts == {buy_text} \cup {buy_text \o <<" ", "#">> \o str(i) : i \in PlanIds}

\* int(message.text.split("#")[1]) of buy_plan: an IndexError when the text
\* has no "#", a ValueError when what follows it is no number
text_plan_id(text) ==
    LET parts == split(text, "#")
    IN  IF Len(parts) < 2 THEN [ok |-> FALSE, value |-> 0] ELSE int(parts[2])

\* ------------------------------------------------------------------- state
VARIABLES
    users,               \* table users: rows [id, telegram_id]
    meditations,         \* table meditations: rows [id, is_free]
    meditations_seq,     \* last value of the BIGSERIAL of meditations.id
    subscription_plans,  \* table subscription_plans: rows [id, duration_days, is_active]
    subscriptions,       \* table subscriptions: rows [id, user_id, plan_id, expires_at]
    now,                 \* the clock read by datetime.utcnow() and by NOW()
    tasks,               \* the handler invocations in flight, and their last reply
    charge_seq,          \* history: provider charge ids handed out so far
    ledger,              \* history: subscriptions.id -> the charge settled into that row,
                         \* and whether its plan was active when the row was inserted
    db_available,        \* whether the pool db reaches PostgreSQL: a statement
                         \* raises while it does not
    plans_reply          \* the last response of GET /plans: [status, plans]

vars == <<users, meditations, meditations_seq, subscription_plans, subscriptions,
          now, tasks, charge_seq, ledger, db_available, plans_reply>>

\* What the handlers of the payment flow and of /access leave alone
io == <<db_available, plans_reply>>

store == <<users, meditations, meditations_seq, subscription_plans, subscriptions>>

\* A handler invocation: the message or request it got, the locals of the
\* handler, the await it stands at (pc) and the reply it gave.
Idle == [kind |-> "none", pc |-> "idle", telegram_id |-> 0, payload |-> <<>>,
         charge |-> 0, meditation_id |-> 0, user_id |-> 0, plan_id |-> 0,
         duration_days |-> 0, free |-> "unset", reply |-> "none",
         created_user |-> FALSE]

Free(t) == tasks[t].pc \in {"idle", "done"}

\* ------------------------------------------------------------------- users
\* The row of users with this telegram_id (UNIQUE), as a set
users_by_telegram_id(us, telegram_id) == {u \in us : u.telegram_id = telegram_id}

\* INSERT INTO users ... with no ON CONFLICT clause and no unique index
get_or_create_user_always_insert(us, telegram_id) ==
    LET id == Cardinality(us) + 1
    IN  [users |-> us \cup {[id |-> id, telegram_id |-> telegram_id]}, id |-> id]

\* The row of a known telegram_id is deleted and inserted again under the next
\* id (REPLACE INTO rather than ON CONFLICT DO UPDATE)
get_or_create_user_replace(us, telegram_id) ==
    LET found == users_by_telegram_id(us, telegram_id)
        id == IF us = {} THEN 1
              ELSE (CHOOSE u \in us : \A o \in us : o.id <= u.id).id + 1
    IN  [users |-> (us \ found) \cup {[id |-> id, telegram_id |-> telegram_id]},
         id |-> id]

\* INSERT INTO users (telegram_id) VALUES ($1) ON CONFLICT (telegram_id)
\* DO UPDATE SET telegram_id = EXCLUDED.telegram_id RETURNING id: one atomic
\* statement.  users rows are never deleted, so the next id is taken as the row
\* count + 1 (the values the sequence skips on a conflict are left out: ids are
\* only compared for equality).
get_or_create_user(us, telegram_id) ==
    LET found == users_by_telegram_id(us, telegram_id)
        id == Cardinality(us) + 1
    IN  IF found # {}
        THEN [users |-> us, id |-> (CHOOSE u \in found : TRUE).id]
        ELSE [users |-> us \cup {[id |-> id, telegram_id |-> telegram_id]}, id |-> id]

\* ----------------------------------------------------------- subscriptions
\* SELECT duration_days FROM subscription_plans WHERE id=$1 AND is_active=TRUE
select_plan_active_only(plans, plan_id) == {p \in plans : p.id = plan_id /\ p.is_active}

\* SELECT duration_days FROM subscription_plans WHERE id=$1 (give_subscription)
select_plan(plans, plan_id) == {p \in plans : p.id = plan_id}

\* SELECT title, price FROM subscription_plans WHERE id=$1, is_active not asked
select_active_plan_any_state(plans, plan_id) == {p \in plans : p.id = plan_id}

\* SELECT title, price FROM subscription_plans WHERE id=$1 AND is_active=TRUE
\* of start and buy_plan
select_active_plan(plans, plan_id) ==
    {p \in plans : p.id = plan_id /\ p.is_active}

\* datetime.utcnow() + timedelta(days=plan["duration_days"]), the days dropped
expires_at_no_duration(utcnow, duration_days) == utcnow

expires_at(utcnow, duration_days) == utcnow + duration_days

\* One row per user: the new row takes the place of the rows the user had
insert_subscription_replacing(subs, user_id, plan_id, expires) ==
    {s \in subs : s.user_id # user_id}
        \cup {[id |-> Cardinality(subs) + 1, user_id |-> user_id,
               plan_id |-> plan_id, expires_at |-> expires]}

\* INSERT INTO subscriptions (user_id, plan_id, expires_at) VALUES ($1,$2,$3);
\* rows are never deleted, so the BIGSERIAL id is the row count + 1
insert_subscription(subs, user_id, plan_id, expires) ==
    subs \cup {[id |-> Cardinality(subs) + 1, user_id |-> user_id,
                plan_id |-> plan_id, expires_at |-> expires]}

\* SELECT 1 FROM subscriptions WHERE expires_at > NOW(), the user filter lost
has_active_subscription_any_user(subs, user_id, time) ==
    \E s \in subs : s.expires_at > time

\* SELECT 1 FROM subscriptions WHERE user_id=$1, the expiry filter lost
has_active_subscription_no_expiry(subs, user_id, time) ==
    \E s \in subs : s.user_id = user_id

\* SELECT 1 FROM subscriptions WHERE user_id=$1 AND expires_at >= NOW()
has_active_subscription_at_expiry(subs, user_id, time) ==
    \E s \in subs : s.user_id = user_id /\ s.expires_at >= time

\* bool(SELECT 1 FROM subscriptions WHERE user_id=$1 AND expires_at > NOW())
has_active_subscription(subs, user_id, time) ==
    \E s \in subs : s.user_id = user_id /\ s.expires_at > time

\* ----------------------------------------------------------------- catalog
\* SELECT is_free ... with the flag negated
select_is_free_negated(meds, meditation_id) ==
    LET found == {m \in meds : m.id = meditation_id}
    IN  IF found = {} THEN "None"
        ELSE IF (CHOOSE m \in found : TRUE).is_free THEN "False" ELSE "True"

\* SELECT is_free FROM meditations WHERE id=$1 through fetchval: None when no
\* row has the id, else the flag of the row
select_is_free(meds, meditation_id) ==
    LET found == {m \in meds : m.id = meditation_id}
    IN  IF found = {} THEN "None"
        ELSE IF (CHOOSE m \in found : TRUE).is_free THEN "True" ELSE "False"

\* --------------------------------------------------------------- purchases
\* The Purchase rows the store holds: init_db creates no table for them and
\* no statement of the program writes one
purchases == {}

\* -------------------------------------------------------------------- Init
\* init_db creates the tables (IF NOT EXISTS) and inserts no row in any of the
\* five tables modelled here.
Init ==
    /\ users = {}
    /\ meditations = {}
    /\ meditations_seq = 0
    /\ subscription_plans = {}
    /\ subscriptions = {}
    /\ now = 0
    /\ tasks = [t \in Tasks |-> Idle]
    /\ charge_seq = 0
    /\ ledger = <<>>
    /\ db_available = TRUE
    /\ plans_reply = [status |-> 0, plans |-> {}]

\* ------------------------------------------------------ successful_payment
\* Invocations of successful_payment that may still insert a row
settling == {t \in Tasks : tasks[t].kind = "successful_payment" /\ ~Free(t)}

\* The handler from its entry to its second await: user_id = await
\* get_or_create_user(...); plan_id = int(payload.split("_")[1]); an IndexError
\* or ValueError goes to the except branch and its answer.
successful_payment_begin(t, telegram_id, payload, charge) ==
    LET r == get_or_create_user(users, telegram_id)
        parsed == payload_plan_id(payload)
        message == [Idle EXCEPT !.kind = "successful_payment",
                                !.telegram_id = telegram_id,
                                !.payload = payload,
                                !.charge = charge]
    IN  /\ users' = r.users
        /\ tasks' = [tasks EXCEPT ![t] =
                       IF parsed.ok
                       THEN [message EXCEPT !.user_id = r.id,
                                            !.plan_id = parsed.value,
                                            !.pc = "select_plan"]
                       ELSE [message EXCEPT !.reply = "failed", !.pc = "done"]]

\* A PaymentConfirmed event of a new charge reaches successful_payment
successful_payment_message(t, telegram_id, payload) ==
    /\ Free(t)
    /\ db_available
    /\ charge_seq < MaxCharges
    /\ Cardinality(subscriptions) + Cardinality(settling) < MaxSubs
    /\ charge_seq' = charge_seq + 1
    /\ successful_payment_begin(t, telegram_id, payload, charge_seq + 1)
    /\ UNCHANGED <<meditations, meditations_seq, subscription_plans, subscriptions,
                   now, ledger, io>>

\* The provider delivers again the event another invocation got or is handling:
\* the same payer, payload and charge
successful_payment_redelivery(t, s) ==
    /\ Free(t)
    /\ db_available
    /\ s # t
    /\ tasks[s].kind = "successful_payment"
    /\ Cardinality(subscriptions) + Cardinality(settling) < MaxSubs
    /\ successful_payment_begin(t, tasks[s].telegram_id, tasks[s].payload,
                                tasks[s].charge)
    /\ UNCHANGED <<meditations, meditations_seq, subscription_plans, subscriptions,
                   now, charge_seq, ledger, io>>

\* give_subscription: the SELECT of the plan; "Plan not found" is raised into
\* the except branch of successful_payment
successful_payment_select_plan(t) ==
    /\ db_available
    /\ tasks[t].kind = "successful_payment"
    /\ tasks[t].pc = "select_plan"
    /\ LET plan == select_plan(subscription_plans, tasks[t].plan_id)
       IN  tasks' = [tasks EXCEPT ![t] =
                       IF plan = {}
                       THEN [@ EXCEPT !.reply = "failed", !.pc = "done",
                                      !.user_id = 0, !.plan_id = 0]
                       ELSE [@ EXCEPT !.duration_days =
                                          (CHOOSE p \in plan : TRUE).duration_days,
                                      !.pc = "insert_subscription"]]
    /\ UNCHANGED <<store, now, charge_seq, ledger, io>>

\* give_subscription extending the latest window of the user: the new row ends
\* duration_days after the user's latest expiry instead of after utcnow
successful_payment_insert_extending(t) ==
    /\ db_available
    /\ tasks[t].kind = "successful_payment"
    /\ tasks[t].pc = "insert_subscription"
    /\ LET mine == {s \in subscriptions : s.user_id = tasks[t].user_id}
           latest == IF mine = {} THEN now
                     ELSE (CHOOSE s \in mine :
                              \A o \in mine : o.expires_at <= s.expires_at).expires_at
           base == IF latest > now THEN latest ELSE now
       IN  subscriptions' = insert_subscription(subscriptions, tasks[t].user_id,
                                tasks[t].plan_id,
                                expires_at(base, tasks[t].duration_days))
    /\ ledger' = Append(ledger,
                    [charge |-> tasks[t].charge,
                     plan_active |-> \E p \in subscription_plans :
                                        p.id = tasks[t].plan_id /\ p.is_active])
    /\ tasks' = [tasks EXCEPT ![t] =
                   [@ EXCEPT !.reply = "activated", !.pc = "done", !.user_id = 0,
                             !.plan_id = 0, !.duration_days = 0]]
    /\ UNCHANGED <<users, meditations, meditations_seq, subscription_plans, now,
                   charge_seq, io>>

\* The activation answer is sent and the row is not inserted
successful_payment_insert_answer_only(t) ==
    /\ db_available
    /\ tasks[t].kind = "successful_payment"
    /\ tasks[t].pc = "insert_subscription"
    /\ tasks' = [tasks EXCEPT ![t] =
                   [@ EXCEPT !.reply = "activated", !.pc = "done", !.user_id = 0,
                             !.plan_id = 0, !.duration_days = 0]]
    /\ UNCHANGED <<store, now, charge_seq, ledger, io>>

\* give_subscription: expires is computed and the row inserted; then the
\* activation answer.  The ledger records the charge behind the new row.
successful_payment_insert(t) ==
    /\ db_available
    /\ tasks[t].kind = "successful_payment"
    /\ tasks[t].pc = "insert_subscription"
    /\ subscriptions' = insert_subscription(subscriptions, tasks[t].user_id,
                            tasks[t].plan_id,
                            expires_at(now, tasks[t].duration_days))
    /\ ledger' = Append(ledger,
                    [charge |-> tasks[t].charge,
                     plan_active |-> \E p \in subscription_plans :
                                        p.id = tasks[t].plan_id /\ p.is_active])
    /\ tasks' = [tasks EXCEPT ![t] =
                   [@ EXCEPT !.reply = "activated", !.pc = "done", !.user_id = 0,
                             !.plan_id = 0, !.duration_days = 0]]
    /\ UNCHANGED <<users, meditations, meditations_seq, subscription_plans, now,
                   charge_seq, io>>

\* -------------------------------------------------------------- api_access
\* GET /access looking the user up with a SELECT and creating no row
api_access_request_lookup_only(t, telegram_id, meditation_id) ==
    /\ Free(t)
    /\ db_available
    /\ LET found == users_by_telegram_id(users, telegram_id)
       IN  tasks' = [tasks EXCEPT ![t] =
                       [Idle EXCEPT !.kind = "api_access",
                                    !.pc = "select_is_free",
                                    !.telegram_id = telegram_id,
                                    !.meditation_id = meditation_id,
                                    !.user_id = IF found = {} THEN 0
                                                ELSE (CHOOSE u \in found : TRUE).id]]
    /\ UNCHANGED <<store, now, charge_seq, ledger, io>>

\* GET /access?user_id=..&meditation_id=.. with both parameters numbers: the
\* handler up to its second await, user_id = await get_or_create_user(...)
api_access_request(t, telegram_id, meditation_id) ==
    /\ Free(t)
    /\ db_available
    /\ LET r == get_or_create_user(users, telegram_id)
       IN  /\ users' = r.users
           /\ tasks' = [tasks EXCEPT ![t] =
                          [Idle EXCEPT !.kind = "api_access",
                                       !.pc = "select_is_free",
                                       !.telegram_id = telegram_id,
                                       !.meditation_id = meditation_id,
                                       !.user_id = r.id]]
    /\ UNCHANGED <<meditations, meditations_seq, subscription_plans, subscriptions,
                   now, charge_seq, ledger, io>>

\* free = fetchval(SELECT is_free ...); if free: return {"access": True}
api_access_select_is_free(t) ==
    /\ db_available
    /\ tasks[t].kind = "api_access"
    /\ tasks[t].pc = "select_is_free"
    /\ LET free == select_is_free(meditations, tasks[t].meditation_id)
       IN  tasks' = [tasks EXCEPT ![t] =
                       IF free = "True"
                       THEN [@ EXCEPT !.free = free, !.reply = "access_true",
                                      !.pc = "done", !.telegram_id = 0,
                                      !.meditation_id = 0]
                       ELSE [@ EXCEPT !.free = free,
                                      !.pc = "has_active_subscription"]]
    /\ UNCHANGED <<store, now, charge_seq, ledger, io>>

\* return {"access": await has_active_subscription(user_id)}
api_access_has_active_subscription(t) ==
    /\ db_available
    /\ tasks[t].kind = "api_access"
    /\ tasks[t].pc = "has_active_subscription"
    /\ tasks' = [tasks EXCEPT ![t] =
                   [@ EXCEPT !.reply =
                                 IF has_active_subscription(subscriptions,
                                                            tasks[t].user_id, now)
                                 THEN "access_true" ELSE "access_false",
                             !.pc = "done", !.telegram_id = 0,
                             !.meditation_id = 0]]
    /\ UNCHANGED <<store, now, charge_seq, ledger, io>>

\* ------------------------------------------------------------------- admin
\* INSERT INTO subscription_plans (title, price, duration_days); is_active
\* DEFAULT TRUE; plans are never deleted, so the id is the row count + 1
api_admin_create_plan(duration_days) ==
    /\ db_available
    /\ Cardinality(subscription_plans) < MaxPlans
    /\ subscription_plans' = subscription_plans \cup
           {[id |-> Cardinality(subscription_plans) + 1,
             duration_days |-> duration_days, is_active |-> TRUE]}
    /\ UNCHANGED <<users, meditations, meditations_seq, subscriptions, now, tasks,
                   charge_seq, ledger, io>>

\* The toggle revoking: when the plan is switched off, the subscriptions rows
\* of the plan are made to end now
api_admin_toggle_plan_revoking(plan_id) ==
    /\ db_available
    /\ \E p \in subscription_plans : p.id = plan_id
    /\ subscription_plans' =
           {IF p.id = plan_id THEN [p EXCEPT !.is_active = ~p.is_active] ELSE p :
              p \in subscription_plans}
    /\ subscriptions' =
           IF \E p \in subscription_plans : p.id = plan_id /\ p.is_active
           THEN {IF s.plan_id = plan_id /\ s.expires_at > now
                 THEN [s EXCEPT !.expires_at = now] ELSE s : s \in subscriptions}
           ELSE subscriptions
    /\ UNCHANGED <<users, meditations, meditations_seq, now, tasks, charge_seq,
                   ledger, io>>

\* UPDATE subscription_plans SET is_active = NOT is_active WHERE id=$1
api_admin_toggle_plan(plan_id) ==
    /\ db_available
    /\ \E p \in subscription_plans : p.id = plan_id
    /\ subscription_plans' =
           {IF p.id = plan_id THEN [p EXCEPT !.is_active = ~p.is_active] ELSE p :
              p \in subscription_plans}
    /\ UNCHANGED <<users, meditations, meditations_seq, subscriptions, now, tasks,
                   charge_seq, ledger, io>>

\* INSERT INTO meditations (title, description, audio_url, is_free)
api_admin_create_meditation(is_free) ==
    /\ db_available
    /\ meditations_seq < MaxMeditations
    /\ meditations_seq' = meditations_seq + 1
    /\ meditations' = meditations \cup
           {[id |-> meditations_seq + 1, is_free |-> is_free]}
    /\ UNCHANGED <<users, subscription_plans, subscriptions, now, tasks,
                   charge_seq, ledger, io>>

\* UPDATE meditations SET title=$1, description=$2, is_free=$3 WHERE id=$4
api_admin_update_meditation(meditation_id, is_free) ==
    /\ db_available
    /\ \E m \in meditations : m.id = meditation_id /\ m.is_free # is_free
    /\ meditations' =
           {IF m.id = meditation_id THEN [m EXCEPT !.is_free = is_free] ELSE m :
              m \in meditations}
    /\ UNCHANGED <<users, meditations_seq, subscription_plans, subscriptions, now,
                   tasks, charge_seq, ledger, io>>

\* DELETE FROM meditations WHERE id=$1
api_admin_delete_meditation(meditation_id) ==
    /\ db_available
    /\ \E m \in meditations : m.id = meditation_id
    /\ meditations' = {m \in meditations : m.id # meditation_id}
    /\ UNCHANGED <<users, meditations_seq, subscription_plans, subscriptions, now,
                   tasks, charge_seq, ledger, io>>

\* A day passes
Tick ==
    /\ now < MaxTime
    /\ now' = now + 1
    /\ UNCHANGED <<store, tasks, charge_seq, ledger, io>>

\* ------------------------------------------------------------------ outage
\* A PaymentConfirmed event arrives while the store is away: get_or_create_user
\* raises and the except branch answers
successful_payment_unavailable(t, telegram_id, payload) ==
    /\ Free(t)
    /\ ~db_available
    /\ charge_seq < MaxCharges
    /\ charge_seq' = charge_seq + 1
    /\ tasks' = [tasks EXCEPT ![t] =
                   [Idle EXCEPT !.kind = "successful_payment",
                                !.telegram_id = telegram_id,
                                !.payload = payload,
                                !.charge = charge_seq + 1,
                                !.reply = "failed", !.pc = "done"]]
    /\ UNCHANGED <<store, now, ledger, io>>

\* The answer of a handler whose statement raised: the except branch of
\* successful_payment, of api_access and of start; buy_plan has none and the
\* exception leaves the handler with no answer
raised_reply(kind) ==
    CASE kind = "successful_payment" -> "failed"
      [] kind = "api_access" -> "error_500"
      [] kind = "start" -> "error"
      [] OTHER -> "none"

\* The statement raises after the row was written: the settlement answers the
\* failure although the subscriptions row is there
statement_raises_after_insert(t) ==
    /\ ~db_available
    /\ tasks[t].pc \in {"select_plan", "insert_subscription", "select_is_free",
                        "has_active_subscription"}
    /\ subscriptions' =
           IF tasks[t].pc = "insert_subscription"
           THEN insert_subscription(subscriptions, tasks[t].user_id,
                    tasks[t].plan_id, expires_at(now, tasks[t].duration_days))
           ELSE subscriptions
    /\ tasks' = [tasks EXCEPT ![t] =
                   [@ EXCEPT !.reply = raised_reply(tasks[t].kind), !.pc = "done",
                             !.user_id = 0, !.plan_id = 0, !.duration_days = 0,
                             !.meditation_id = 0,
                             !.telegram_id = IF tasks[t].kind = "api_access"
                                             THEN 0 ELSE @]]
    /\ UNCHANGED <<users, meditations, meditations_seq, subscription_plans, now,
                   charge_seq, ledger, io>>

\* A handler stands at a statement while the store is away: the statement
\* raises, nothing is written, and the handler ends as its except branch says
statement_raises(t) ==
    /\ ~db_available
    /\ tasks[t].pc \in {"select_plan", "insert_subscription", "select_is_free",
                        "has_active_subscription"}
    /\ tasks' = [tasks EXCEPT ![t] =
                   [@ EXCEPT !.reply = raised_reply(tasks[t].kind), !.pc = "done",
                             !.user_id = 0, !.plan_id = 0, !.duration_days = 0,
                             !.meditation_id = 0,
                             !.telegram_id = IF tasks[t].kind = "api_access"
                                             THEN 0 ELSE @]]
    /\ UNCHANGED <<store, now, charge_seq, ledger, io>>

\* PostgreSQL goes away, and comes back
store_outage ==
    /\ db_available
    /\ db_available' = FALSE
    /\ UNCHANGED <<store, now, tasks, charge_seq, ledger, plans_reply>>

store_recovery ==
    /\ ~db_available
    /\ db_available' = TRUE
    /\ UNCHANGED <<store, now, tasks, charge_seq, ledger, plans_reply>>

\* ------------------------------------------------------------------- start
\* /start with command.args = args: await get_or_create_user(...), then the
\* deep link is read.  A purchase link whose number parses goes on to the
\* SELECT of the plan; anything else gets the hint to open the Mini App.
start_message(t, telegram_id, args) ==
    /\ Free(t)
    /\ db_available
    /\ LET r == get_or_create_user(users, telegram_id)
           parsed == start_plan_id(args)
           message == [Idle EXCEPT !.kind = "start",
                                   !.telegram_id = telegram_id,
                                   !.created_user = (r.users # users)]
       IN  /\ users' = r.users
           /\ tasks' = [tasks EXCEPT ![t] =
                          IF parsed.buy /\ parsed.ok
                          THEN [message EXCEPT !.plan_id = parsed.value,
                                               !.pc = "select_plan"]
                          ELSE [message EXCEPT !.reply = "hint", !.pc = "done"]]
    /\ UNCHANGED <<meditations, meditations_seq, subscription_plans, subscriptions,
                   now, charge_seq, ledger, io>>

\* start granting at the invoice: the subscriptions row is inserted when the
\* invoice is sent, before any payment
start_select_plan_granting(t) ==
    /\ db_available
    /\ tasks[t].kind = "start"
    /\ tasks[t].pc = "select_plan"
    /\ LET plan == select_active_plan(subscription_plans, tasks[t].plan_id)
       IN  /\ subscriptions' =
                  IF plan # {}
                  THEN insert_subscription(subscriptions,
                           (CHOOSE u \in users : u.telegram_id = tasks[t].telegram_id).id,
                           tasks[t].plan_id,
                           expires_at(now, (CHOOSE p \in plan : TRUE).duration_days))
                  ELSE subscriptions
           /\ tasks' = [tasks EXCEPT ![t] =
                          IF plan # {}
                          THEN [@ EXCEPT !.reply = "invoice",
                                         !.payload = plan_payload(tasks[t].plan_id),
                                         !.pc = "done", !.plan_id = 0]
                          ELSE [@ EXCEPT !.reply = "hint", !.pc = "done",
                                         !.plan_id = 0]]
    /\ UNCHANGED <<users, meditations, meditations_seq, subscription_plans, now,
                   charge_seq, ledger, io>>

\* start: the SELECT of the active plan; send_invoice with payload
\* f"plan_{plan_id}" if there is one, else the hint
start_select_plan(t) ==
    /\ db_available
    /\ tasks[t].kind = "start"
    /\ tasks[t].pc = "select_plan"
    /\ LET plan == select_active_plan(subscription_plans, tasks[t].plan_id)
       IN  tasks' = [tasks EXCEPT ![t] =
                       IF plan # {}
                       THEN [@ EXCEPT !.reply = "invoice",
                                      !.payload = plan_payload(tasks[t].plan_id),
                                      !.pc = "done", !.plan_id = 0]
                       ELSE [@ EXCEPT !.reply = "hint", !.pc = "done",
                                      !.plan_id = 0]]
    /\ UNCHANGED <<store, now, charge_seq, ledger, io>>

\* ---------------------------------------------------------------- buy_plan
\* A message whose text starts with the buy words: the number after "#" is
\* parsed, with no statement run yet; the sender is only the chat the answer
\* goes to and is left out
buy_plan_message(t, text) ==
    /\ Free(t)
    /\ startswith(text, buy_text)
    /\ LET parsed == text_plan_id(text)
           message == [Idle EXCEPT !.kind = "buy_plan"]
       IN  tasks' = [tasks EXCEPT ![t] =
                       IF parsed.ok
                       THEN [message EXCEPT !.plan_id = parsed.value,
                                            !.pc = "select_plan"]
                       ELSE [message EXCEPT !.reply = "bad_format", !.pc = "done"]]
    /\ UNCHANGED <<store, now, charge_seq, ledger, io>>

\* buy_plan: the SELECT of the active plan; the not-found answer, or
\* send_invoice with payload f"plan_{plan_id}"
buy_plan_select_plan(t) ==
    /\ db_available
    /\ tasks[t].kind = "buy_plan"
    /\ tasks[t].pc = "select_plan"
    /\ LET plan == select_active_plan(subscription_plans, tasks[t].plan_id)
       IN  tasks' = [tasks EXCEPT ![t] =
                       IF plan = {}
                       THEN [@ EXCEPT !.reply = "not_found", !.pc = "done",
                                      !.plan_id = 0]
                       ELSE [@ EXCEPT !.reply = "invoice",
                                      !.payload = plan_payload(tasks[t].plan_id),
                                      !.pc = "done", !.plan_id = 0]]
    /\ UNCHANGED <<store, now, charge_seq, ledger, io>>

\* ------------------------------------------------------------ pre_checkout
\* A PreCheckoutQuery reaches pre_checkout
pre_checkout_query(t) ==
    /\ Free(t)
    /\ tasks' = [tasks EXCEPT ![t] =
                   [Idle EXCEPT !.kind = "pre_checkout", !.pc = "answer"]]
    /\ UNCHANGED <<store, now, charge_seq, ledger, io>>

\* The query is answered only once the store can be reached
pre_checkout_answer_with_store(t) ==
    /\ db_available
    /\ tasks[t].kind = "pre_checkout"
    /\ tasks[t].pc = "answer"
    /\ tasks' = [tasks EXCEPT ![t] = [@ EXCEPT !.reply = "approve", !.pc = "done"]]
    /\ UNCHANGED <<store, now, charge_seq, ledger, io>>

\* await bot.answer_pre_checkout_query(q.id, ok=True): the only statement of
\* the handler; the store is not asked
pre_checkout_answer(t) ==
    /\ tasks[t].kind = "pre_checkout"
    /\ tasks[t].pc = "answer"
    /\ tasks' = [tasks EXCEPT ![t] = [@ EXCEPT !.reply = "approve", !.pc = "done"]]
    /\ UNCHANGED <<store, now, charge_seq, ledger, io>>

\* --------------------------------------------------------------- api_plans
\* The rows of the response: id and duration_days of the plans given (title
\* and price are not modelled, so neither is ORDER BY price)
plan_rows(plans) == {[id |-> p.id, duration_days |-> p.duration_days] : p \in plans}

\* SELECT ... FROM subscription_plans with the is_active filter lost
api_plans_all ==
    /\ plans_reply' =
           IF db_available
           THEN [status |-> 200, plans |-> plan_rows(subscription_plans)]
           ELSE [status |-> 500, plans |-> {}]
    /\ UNCHANGED <<store, now, tasks, charge_seq, ledger, db_available>>

\* GET /plans: one db.fetch of the rows WHERE is_active=TRUE, answered as a
\* list; status 500 when the fetch raises
api_plans ==
    /\ plans_reply' =
           IF db_available
           THEN [status |-> 200,
                 plans |-> plan_rows({p \in subscription_plans : p.is_active})]
           ELSE [status |-> 500, plans |-> {}]
    /\ UNCHANGED <<store, now, tasks, charge_seq, ledger, db_available>>

\* -------------------------------------------------------------------- Next
Next ==
    \/ \E t \in Tasks, telegram_id \in TelegramIds, payload \in Payloads :
           successful_payment_message(t, telegram_id, payload)
    \/ \E t \in Tasks, s \in Tasks : successful_payment_redelivery(t, s)
    \/ \E t \in Tasks : successful_payment_select_plan(t)
    \/ \E t \in Tasks : successful_payment_insert(t)
    \/ \E t \in Tasks, telegram_id \in TelegramIds, meditation_id \in MeditationIds :
           api_access_request(t, telegram_id, meditation_id)
    \/ \E t \in Tasks : api_access_select_is_free(t)
    \/ \E t \in Tasks : api_access_has_active_subscription(t)
    \/ \E duration_days \in Durations : api_admin_create_plan(duration_days)
    \/ \E plan_id \in PlanIds : api_admin_toggle_plan(plan_id)
    \/ \E is_free \in BOOLEAN : api_admin_create_meditation(is_free)
    \/ \E meditation_id \in MeditationIds, is_free \in BOOLEAN :
           api_admin_update_meditation(meditation_id, is_free)
    \/ \E meditation_id \in MeditationIds : api_admin_delete_meditation(meditation_id)
    \/ Tick

Spec == Init /\ [][Next]_vars

\* The bot with its message handlers, /access and the catalog of plans, the
\* store being there: the clock stands still and no meditation is created
NextHandlers ==
    \/ \E t \in Tasks, telegram_id \in TelegramIds, payload \in HandlerPayloads :
           successful_payment_message(t, telegram_id, payload)
    \/ \E t \in Tasks : successful_payment_select_plan(t)
    \/ \E t \in Tasks : successful_payment_insert(t)
    \/ \E t \in Tasks, telegram_id \in TelegramIds, args \in StartArgs :
           start_message(t, telegram_id, args)
    \/ \E t \in Tasks : start_select_plan(t)
    \/ \E t \in Tasks, text \in BuyTexts : buy_plan_message(t, text)
    \/ \E t \in Tasks : buy_plan_select_plan(t)
    \/ \E t \in Tasks, telegram_id \in TelegramIds, meditation_id \in MeditationIds :
           api_access_request(t, telegram_id, meditation_id)
    \/ \E t \in Tasks : api_access_select_is_free(t)
    \/ \E t \in Tasks : api_access_has_active_subscription(t)
    \/ \E duration_days \in Durations : api_admin_create_plan(duration_days)
    \/ \E plan_id \in PlanIds : api_admin_toggle_plan(plan_id)

SpecHandlers == Init /\ [][NextHandlers]_vars

\* The checkout of an invoice with a store that may go away: the buy message,
\* the PreCheckout query, the settlement, GET /plans and the catalog of plans.
\* The event loop runs a handler that stands at its answer, and a settlement
\* that stands at a statement: the statement returns or raises.
NextCheckout ==
    \/ \E t \in Tasks, text \in BuyTexts : buy_plan_message(t, text)
    \/ \E t \in Tasks : buy_plan_select_plan(t)
    \/ \E t \in Tasks : pre_checkout_query(t)
    \/ \E t \in Tasks : pre_checkout_answer(t)
    \/ \E t \in Tasks, telegram_id \in TelegramIds, payload \in HandlerPayloads :
           successful_payment_message(t, telegram_id, payload)
    \/ \E t \in Tasks, telegram_id \in TelegramIds, payload \in HandlerPayloads :
           successful_payment_unavailable(t, telegram_id, payload)
    \/ \E t \in Tasks : successful_payment_select_plan(t)
    \/ \E t \in Tasks : successful_payment_insert(t)
    \/ \E t \in Tasks : statement_raises(t)
    \/ api_plans
    \/ \E duration_days \in Durations : api_admin_create_plan(duration_days)
    \/ \E plan_id \in PlanIds : api_admin_toggle_plan(plan_id)
    \/ store_outage
    \/ store_recovery

SpecCheckout ==
    /\ Init
    /\ [][NextCheckout]_vars
    /\ \A t \in Tasks : WF_vars(pre_checkout_answer(t))
    /\ \A t \in Tasks : WF_vars(\/ successful_payment_select_plan(t)
                                 \/ successful_payment_insert(t)
                                 \/ statement_raises(t))

\* ================================================================== claims
\* What the claims speak of, read off the tables themselves.
ActiveRow(user_id) ==
    \E s \in subscriptions : s.user_id = user_id /\ s.expires_at > now

ItemExists(meditation_id) == \E m \in meditations : m.id = meditation_id

ItemFree(meditation_id) == \E m \in meditations : m.id = meditation_id /\ m.is_free

PlanExists(plan_id) == \E p \in subscription_plans : p.id = plan_id

PlanInactive(plan_id) ==
    \E p \in subscription_plans : p.id = plan_id /\ ~p.is_active

UserIdOf(telegram_id) ==
    IF \E u \in users : u.telegram_id = telegram_id
    THEN (CHOOSE u \in users : u.telegram_id = telegram_id).id
    ELSE 0

RowsOfCharge(charge) == {i \in 1..Len(ledger) : ledger[i].charge = charge}

\* The step is taken by invocation t, and t is a settlement / an access query
SettlementStep(t) ==
    tasks'[t] # tasks[t] /\ tasks'[t].kind = "successful_payment"

AccessStep(t) == tasks'[t] # tasks[t] /\ tasks[t].kind = "api_access" /\ ~Free(t)

AccessAnswers(t) == AccessStep(t) /\ tasks'[t].pc = "done"

\* The step on which give_subscription inserts for invocation t
InsertStep(t) ==
    SettlementStep(t) /\ tasks[t].pc = "insert_subscription"

\* The step adds exactly one row, for this user and plan, expiring at this time
OneNewRow(user_id, plan_id, expires) ==
    \E row \in subscriptions' :
        /\ row \notin subscriptions
        /\ subscriptions' = subscriptions \cup {row}
        /\ row.user_id = user_id
        /\ row.plan_id = plan_id
        /\ row.expires_at = expires

\* ---------------------------------------------------------------------- C1
\* C1: settling the same provider charge twice leaves exactly one
\* subscriptions row for that charge: when two deliveries of one
\* PaymentConfirmed event with a plan token have both been handled, the charge
\* has one row.
C1_OneRowPerCharge ==
    \A t1, t2 \in Tasks :
        (/\ t1 # t2
         /\ tasks[t1].kind = "successful_payment" /\ tasks[t1].pc = "done"
         /\ tasks[t2].kind = "successful_payment" /\ tasks[t2].pc = "done"
         /\ tasks[t1].charge = tasks[t2].charge
         /\ \E plan_id \in PlanIds : tasks[t1].payload = plan_payload(plan_id)) =>
            Cardinality(RowsOfCharge(tasks[t1].charge)) <= 1

\* ---------------------------------------------------------------------- C2
\* C2: however get_or_create_user calls with the same telegram id interleave,
\* there is exactly one users row with that telegram id and every call that
\* has returned holds the id of that row, so all of them hold the same id.
C2_UpsertConverges ==
    /\ \A u1, u2 \in users : u1.telegram_id = u2.telegram_id => u1 = u2
    /\ \A t \in Tasks :
           (tasks[t].telegram_id # 0 /\ tasks[t].user_id # 0) =>
               /\ Cardinality(users_by_telegram_id(users, tasks[t].telegram_id)) = 1
               /\ tasks[t].user_id = UserIdOf(tasks[t].telegram_id)
    /\ \A t1, t2 \in Tasks :
           (/\ tasks[t1].telegram_id # 0 /\ tasks[t1].user_id # 0
            /\ tasks[t2].user_id # 0
            /\ tasks[t1].telegram_id = tasks[t2].telegram_id) =>
               tasks[t1].user_id = tasks[t2].user_id

\* Two handlers in flight have both called get_or_create_user with one telegram id
C2_Witness ==
    \E t1, t2 \in Tasks :
        /\ t1 # t2
        /\ ~Free(t1) /\ ~Free(t2)
        /\ tasks[t1].telegram_id = tasks[t2].telegram_id
        /\ tasks[t1].user_id # 0 /\ tasks[t1].user_id = tasks[t2].user_id

\* ---------------------------------------------------------------------- C3
\* C3: the access answer for an existing item is true exactly when the item is
\* free as the query reads it or the user has a subscriptions row that has not
\* expired when the query looks; meditations rows carry no package reference
\* and there is no purchases table, so the package clause adds nothing.  The
\* flag the query goes by is the one the meditations row holds when it is read.
C3_AccessRule ==
    [][\A t \in Tasks :
          /\ (AccessStep(t) /\ tasks[t].pc = "select_is_free") =>
                 tasks'[t].free =
                     IF ~ItemExists(tasks[t].meditation_id) THEN "None"
                     ELSE IF ItemFree(tasks[t].meditation_id) THEN "True" ELSE "False"
          /\ (AccessAnswers(t) /\ tasks'[t].free # "None") =>
                 ((tasks'[t].reply = "access_true") <=>
                      (tasks'[t].free = "True" \/ ActiveRow(tasks[t].user_id)))
          /\ AccessAnswers(t) => tasks'[t].reply \in {"access_true", "access_false"}
      ]_vars

\* A query for an item that is not free was answered true
C3_Witness ==
    \E t \in Tasks :
        /\ tasks[t].kind = "api_access" /\ tasks[t].pc = "done"
        /\ tasks[t].free = "False" /\ tasks[t].reply = "access_true"

\* ---------------------------------------------------------------------- C4
\* C4: a query that finds the item free answers true whoever asks and whatever
\* subscriptions hold, and the asking telegram id has a users row once the
\* query has begun, also when it had none before.
C4_FreeItemAlwaysAccessible ==
    [][\A t \in Tasks :
          /\ (AccessStep(t) /\ tasks[t].pc = "select_is_free"
                 /\ ItemFree(tasks[t].meditation_id)) =>
                 (tasks'[t].pc = "done" /\ tasks'[t].reply = "access_true")
          /\ (tasks'[t] # tasks[t] /\ tasks'[t].kind = "api_access"
                 /\ tasks'[t].pc = "select_is_free") =>
                 \E u \in users' : /\ u.telegram_id = tasks'[t].telegram_id
                                   /\ u.id = tasks'[t].user_id
      ]_vars

\* A free item was granted to a user none of whose rows is unexpired, while
\* subscriptions holds rows
C4_Witness ==
    \E t \in Tasks :
        /\ tasks[t].kind = "api_access" /\ tasks[t].pc = "done"
        /\ tasks[t].free = "True" /\ tasks[t].reply = "access_true"
        /\ ~ActiveRow(tasks[t].user_id)
        /\ subscriptions # {}

\* ---------------------------------------------------------------------- C5
\* C5: a query that found an existing item not free answers false when the
\* user has no subscriptions row expiring after now.
C5_NoGrantNoAccess ==
    [][\A t \in Tasks :
          (AccessStep(t) /\ tasks[t].pc = "has_active_subscription"
              /\ tasks[t].free = "False" /\ ~ActiveRow(tasks[t].user_id)) =>
              (tasks'[t].pc = "done" /\ tasks'[t].reply = "access_false")
      ]_vars

\* Access was refused to a user whose only rows have expired
C5_Witness ==
    \E t \in Tasks :
        /\ tasks[t].kind = "api_access" /\ tasks[t].pc = "done"
        /\ tasks[t].free = "False" /\ tasks[t].reply = "access_false"
        /\ \E s \in subscriptions : s.user_id = tasks[t].user_id
        /\ ~ActiveRow(tasks[t].user_id)

\* ---------------------------------------------------------------------- C6
\* C6: when a payment whose payload is the token of plan p is settled at time
\* t, the step adds exactly one subscriptions row, (the payer's user id, p,
\* t + duration_days of p); and has_active_subscription is true of a row's user
\* at every time before the row's expires_at.
C6_PlanPaymentGrants ==
    [][/\ \A t \in Tasks : \A p \in subscription_plans :
              (InsertStep(t) /\ tasks[t].payload = plan_payload(p.id)) =>
                  /\ OneNewRow(UserIdOf(tasks[t].telegram_id), p.id,
                               now + p.duration_days)
                  /\ has_active_subscription(subscriptions',
                                             UserIdOf(tasks[t].telegram_id), now')
       /\ \A row \in subscriptions' :
              now' < row.expires_at =>
                  has_active_subscription(subscriptions', row.user_id, now')
      ]_vars

\* A plan payment was settled and its payer holds an unexpired row of the plan
C6_Witness ==
    \E t \in Tasks : \E p \in subscription_plans :
        /\ tasks[t].kind = "successful_payment" /\ tasks[t].pc = "done"
        /\ tasks[t].reply = "activated"
        /\ tasks[t].payload = plan_payload(p.id)
        /\ \E row \in subscriptions :
               /\ row.user_id = UserIdOf(tasks[t].telegram_id)
               /\ row.plan_id = p.id
               /\ row.expires_at > now

\* ---------------------------------------------------------------------- C7
\* The grant targets of the specification: the lifetime marker and the token
\* of a plan that exists (there is no package table)
RecognisedToken(payload) ==
    \/ payload = <<"l", "i", "f", "e", "t", "i", "m", "e">>
    \/ \E p \in subscription_plans : payload = plan_payload(p.id)

\* C7: no step of a settlement whose payload token is not a recognised grant
\* target changes subscriptions, and its answer is the failure message.
C7_UnknownTokenGrantsNothing ==
    [][\A t \in Tasks :
          (SettlementStep(t) /\ ~RecognisedToken(tasks'[t].payload)) =>
              /\ subscriptions' = subscriptions
              /\ tasks'[t].reply # "activated"
      ]_vars

\* ---------------------------------------------------------------------- C8
\* The settlement t has parsed its payload, which is the token of its plan
NamesItsPlan(t) ==
    /\ tasks[t].pc \in {"select_plan", "insert_subscription"}
    /\ tasks[t].payload = plan_payload(tasks[t].plan_id)

\* C8 as stated: no step of a settlement whose payload names a plan that is
\* inactive inserts a row, and the payer is not told the subscription is active.
C8_InactivePlanAborts ==
    [][\A t \in Tasks :
          (SettlementStep(t) /\ NamesItsPlan(t)
              /\ PlanInactive(tasks[t].plan_id)) =>
              /\ subscriptions' = subscriptions
              /\ tasks'[t].reply # "activated"
      ]_vars

\* C8 amended: give_subscription looks the plan up by id alone; a settlement
\* whose payload names a plan that is inactive goes on to insert one row
\* (payer, plan, now + duration_days) and answers that the subscription is
\* activated.
C8_InactivePlanHonoured ==
    [][\A t \in Tasks :
          /\ (SettlementStep(t) /\ NamesItsPlan(t) /\ tasks[t].pc = "select_plan"
                 /\ PlanInactive(tasks[t].plan_id)) =>
                 (tasks'[t].pc = "insert_subscription" /\ tasks'[t].reply = "none")
          /\ \A p \in subscription_plans :
                 (InsertStep(t) /\ NamesItsPlan(t) /\ p.id = tasks[t].plan_id
                     /\ ~p.is_active) =>
                     /\ OneNewRow(tasks[t].user_id, p.id, now + p.duration_days)
                     /\ tasks'[t].reply = "activated"
      ]_vars

\* A row was inserted for a plan that was inactive at that moment
C8_Witness ==
    \E i \in 1..Len(ledger) :
        /\ ~ledger[i].plan_active
        /\ \E row \in subscriptions : row.id = i /\ PlanExists(row.plan_id)

\* ---------------------------------------------------------------------- C9
\* C9: a query for an item id with no meditations row is never answered with
\* an access boolean.
C9_UnknownItemIsNotFound ==
    \A t \in Tasks :
        (tasks[t].kind = "api_access" /\ tasks[t].pc = "done"
            /\ tasks[t].free = "None") =>
            tasks[t].reply \notin {"access_true", "access_false"}

\* --------------------------------------------------------------------- C10
\* C10: when a query answers true for an item it did not find free, a row of
\* that user, inserted by a settlement and not expired, is already in
\* subscriptions.
C10_NoAccessBeforeGrant ==
    [][\A t \in Tasks :
          (AccessAnswers(t) /\ tasks'[t].reply = "access_true"
              /\ tasks'[t].free # "True") =>
              \E row \in subscriptions :
                  /\ row.user_id = tasks[t].user_id
                  /\ row.expires_at > now
                  /\ row.id \in 1..Len(ledger)
                  /\ \E u \in users : u.id = row.user_id
      ]_vars

\* Access to an item that is not free was granted on a committed row while
\* another settlement was still on its way
C10_Witness ==
    \E t, s \in Tasks :
        /\ tasks[t].kind = "api_access" /\ tasks[t].pc = "done"
        /\ tasks[t].free # "True" /\ tasks[t].reply = "access_true"
        /\ ActiveRow(tasks[t].user_id)
        /\ tasks[s].kind = "successful_payment" /\ ~Free(s)

\* --------------------------------------------------------------------- C11
\* C11: grants are per user: a query for an item it did not find free answers
\* false for a user who has no subscriptions row of their own, whatever rows
\* other users hold.
C11_GrantsArePerUser ==
    [][\A t \in Tasks :
          (AccessStep(t) /\ tasks[t].pc = "has_active_subscription"
              /\ \A s \in subscriptions : s.user_id # tasks[t].user_id) =>
              (tasks'[t].pc = "done" /\ tasks'[t].reply = "access_false")
      ]_vars

\* Access was refused to a user without rows while another user held an
\* unexpired row
C11_Witness ==
    \E t \in Tasks :
        /\ tasks[t].kind = "api_access" /\ tasks[t].pc = "done"
        /\ tasks[t].free # "True" /\ tasks[t].reply = "access_false"
        /\ \A s \in subscriptions : s.user_id # tasks[t].user_id
        /\ \E s \in subscriptions : s.user_id # tasks[t].user_id /\ s.expires_at > now

\* --------------------------------------------------------------------- C12
\* C12: a payment whose payload is the lifetime marker, once handled, has been
\* answered with the activation message and its payer holds an unexpired row.
C12_LifetimeIsGranted ==
    \A t \in Tasks :
        (/\ tasks[t].kind = "successful_payment" /\ tasks[t].pc = "done"
         /\ tasks[t].payload = <<"l", "i", "f", "e", "t", "i", "m", "e">>) =>
            /\ tasks[t].reply = "activated"
            /\ ActiveRow(UserIdOf(tasks[t].telegram_id))

\* --------------------------------------------------------------------- C14
\* C14: subscriptions is append-only: every step keeps every row as it is, and
\* a step that changes the table is the insert of one settlement and adds
\* exactly one row.
C14_SubscriptionsAppendOnly ==
    [][/\ \A row \in subscriptions : row \in subscriptions'
       /\ subscriptions' # subscriptions =>
              /\ \E t \in Tasks : InsertStep(t) /\ tasks'[t].reply = "activated"
              /\ Cardinality(subscriptions') = Cardinality(subscriptions) + 1
      ]_vars

\* A user holds two rows: the second payment left the first row in place
C14_Witness ==
    \E r1, r2 \in subscriptions :
        /\ r1.id < r2.id
        /\ r1.user_id = r2.user_id
        /\ \E t \in Tasks : tasks[t].kind = "successful_payment"
                            /\ tasks[t].reply = "activated"

\* --------------------------------------------------------------------- C20
\* The rows of a user
RowsOfUser(subs, user_id) == {s \in subs : s.user_id = user_id}

\* C20: every plan payment adds its own window, now + duration_days of its
\* plan, and leaves the earlier rows as they are; a user is active exactly
\* while the clock is before the latest expiry among the user's rows.
C20_IndependentWindows ==
    [][/\ \A t \in Tasks : \A p \in subscription_plans :
              (InsertStep(t) /\ p.id = tasks[t].plan_id) =>
                  /\ subscriptions \subseteq subscriptions'
                  /\ \E row \in subscriptions' \ subscriptions :
                         /\ row.user_id = tasks[t].user_id
                         /\ row.expires_at = now + p.duration_days
       /\ \A u \in users' :
              LET mine == RowsOfUser(subscriptions', u.id)
              IN  has_active_subscription(subscriptions', u.id, now') <=>
                      /\ mine # {}
                      /\ \E latest \in mine :
                             /\ \A o \in mine : o.expires_at <= latest.expires_at
                             /\ now' < latest.expires_at
      ]_vars

\* A user paid twice; the first window has run out, the second has not, and
\* the user is active
C20_Witness ==
    \E r1, r2 \in subscriptions :
        /\ r1.id < r2.id
        /\ r1.user_id = r2.user_id
        /\ r1.expires_at <= now
        /\ now < r2.expires_at
        /\ has_active_subscription(subscriptions, r1.user_id, now)

\* --------------------------------------------------------------------- C13
\* C13: when two PaymentConfirmed events of two charges with the token of
\* package 1 have been handled for one user, the store holds exactly one
\* Purchase row of that user and package, and neither event was answered with
\* the failure message.
C13_PackageSettledOnce ==
    \A t1, t2 \in Tasks :
        (/\ t1 # t2
         /\ tasks[t1].kind = "successful_payment" /\ tasks[t1].pc = "done"
         /\ tasks[t2].kind = "successful_payment" /\ tasks[t2].pc = "done"
         /\ tasks[t1].payload = <<"p", "a", "c", "k", "a", "g", "e", "_", "1">>
         /\ tasks[t2].payload = tasks[t1].payload
         /\ tasks[t1].telegram_id = tasks[t2].telegram_id
         /\ tasks[t1].charge # tasks[t2].charge) =>
            /\ Cardinality({r \in purchases :
                               /\ r.user_id = UserIdOf(tasks[t1].telegram_id)
                               /\ r.package_id = 1}) = 1
            /\ tasks[t1].reply # "failed"
            /\ tasks[t2].reply # "failed"

\* --------------------------------------------------------------------- C15
\* C15: whatever handler takes a step (/start, a settlement, an access query,
\* each through get_or_create_user), every users row stays in the table as it
\* is, and no two rows share a telegram_id or an id.
C15_UsersStable ==
    [][/\ \A u \in users : u \in users'
       /\ \A u, v \in users' :
              (u.telegram_id = v.telegram_id \/ u.id = v.id) => u = v
      ]_vars

\* /start and a settlement of the same telegram_id have both run, a second
\* user is known too, and each has one row
C15_Witness ==
    /\ Cardinality(users) = MaxUsers
    /\ \E t1, t2 \in Tasks :
           /\ tasks[t1].kind = "start" /\ tasks[t1].pc = "done"
           /\ tasks[t2].kind = "successful_payment" /\ tasks[t2].pc = "done"
           /\ tasks[t1].telegram_id = tasks[t2].telegram_id
           /\ Cardinality(users_by_telegram_id(users, tasks[t1].telegram_id)) = 1

\* --------------------------------------------------------------------- C16
\* C16: a step of a settlement that answers the failure message leaves
\* subscriptions as it was, so the access of every user is what it was; and a
\* step of a settlement that inserts no row does not answer the activation.
C16_FailedSettlementGrantsNothing ==
    [][\A t \in Tasks :
          SettlementStep(t) =>
              /\ tasks'[t].reply = "failed" =>
                     /\ subscriptions' = subscriptions
                     /\ tasks'[t].pc = "done"
              /\ subscriptions' = subscriptions => tasks'[t].reply # "activated"
      ]_vars

\* A settlement of the token of an existing plan failed while the store was
\* away: the payer has a users row and no subscriptions row
C16_Witness ==
    \E t \in Tasks :
        /\ tasks[t].kind = "successful_payment" /\ tasks[t].pc = "done"
        /\ tasks[t].reply = "failed"
        /\ \E plan_id \in PlanIds :
               tasks[t].payload = plan_payload(plan_id) /\ PlanExists(plan_id)
        /\ ~db_available
        /\ UserIdOf(tasks[t].telegram_id) # 0
        /\ subscriptions = {}

\* --------------------------------------------------------------------- C17
\* C17: a PreCheckout query that reached the handler is eventually answered,
\* with approve, whether the store is there or not; an answered query is not
\* answered again.
C17_PreCheckoutAnswered ==
    /\ \A t \in Tasks :
           (tasks[t].kind = "pre_checkout" /\ tasks[t].pc = "answer")
               ~> (tasks[t].kind = "pre_checkout" /\ tasks[t].pc = "done"
                       /\ tasks[t].reply = "approve")
    /\ [][\A t \in Tasks :
             (tasks[t].kind = "pre_checkout" /\ tasks'[t] # tasks[t]) =>
                 IF tasks[t].pc = "answer"
                 THEN tasks'[t] = [tasks[t] EXCEPT !.reply = "approve", !.pc = "done"]
                 ELSE ~(tasks'[t].kind = "pre_checkout" /\ tasks'[t].pc = "done")
        ]_vars

\* A query was approved while the store was away
C17_Witness ==
    \E t \in Tasks :
        /\ tasks[t].kind = "pre_checkout" /\ tasks[t].pc = "done"
        /\ tasks[t].reply = "approve"
        /\ ~db_available

\* --------------------------------------------------------------------- C18
\* A step of a handler of /start or of the buy message
InvoiceHandlerStep(t) ==
    tasks'[t] # tasks[t] /\ tasks'[t].kind \in {"start", "buy_plan"}

\* C18 as stated: no step of a handler of /start or of the buy message changes
\* subscription_plans or subscriptions, and a handler that sends an invoice
\* has left users as it was.
C18_InvoiceChangesNothing ==
    [][\A t \in Tasks :
          InvoiceHandlerStep(t) =>
              /\ subscription_plans' = subscription_plans
              /\ subscriptions' = subscriptions
              /\ tasks'[t].reply = "invoice" =>
                     (users' = users /\ ~tasks'[t].created_user)
      ]_vars

\* C18 amended: no step of a handler of /start or of the buy message changes
\* subscription_plans or subscriptions; the buy message changes no users row;
\* /start changes users only in its first step and only by inserting the row
\* of its sender when there was none.
C18_InvoiceKeepsPlansAndSubscriptions ==
    [][\A t \in Tasks :
          InvoiceHandlerStep(t) =>
              /\ subscription_plans' = subscription_plans
              /\ subscriptions' = subscriptions
              /\ tasks'[t].kind = "buy_plan" => users' = users
              /\ (tasks'[t].kind = "start" /\ tasks[t].pc = "select_plan") =>
                     users' = users
              /\ (tasks'[t].kind = "start" /\ tasks[t].pc # "select_plan") =>
                     /\ tasks'[t].created_user <=> users' # users
                     /\ users' # users <=>
                            users_by_telegram_id(users, tasks'[t].telegram_id) = {}
                     /\ \A u \in users : u \in users'
                     /\ \A u \in users' \ users :
                            u.telegram_id = tasks'[t].telegram_id
      ]_vars

\* An invoice was sent by a /start handler whose first step inserted the users
\* row of the sender
C18_Witness ==
    \E t \in Tasks :
        /\ tasks[t].kind = "start" /\ tasks[t].pc = "done"
        /\ tasks[t].reply = "invoice"
        /\ tasks[t].created_user
        /\ users_by_telegram_id(users, tasks[t].telegram_id) # {}

\* --------------------------------------------------------------------- C19
\* C19: a response of GET /plans with status 200 lists exactly the plans whose
\* is_active is TRUE in the table when the query runs; the query fails only
\* while the store is away.
C19_PlansAreTheActiveOnes ==
    [][plans_reply' # plans_reply =>
          /\ plans_reply'.status = 200 =>
                 /\ \A p \in subscription_plans :
                        p.is_active <=> \E r \in plans_reply'.plans : r.id = p.id
                 /\ \A r \in plans_reply'.plans :
                        \E p \in subscription_plans :
                            p.id = r.id /\ p.duration_days = r.duration_days
          /\ plans_reply'.status # 200 => ~db_available
      ]_vars

\* The plan was created and switched off, and the response left it out
C19_Witness ==
    /\ plans_reply.status = 200
    /\ plans_reply.plans = {}
    /\ \E p \in subscription_plans : ~p.is_active

\* --------------------------------------------------------------------- C21
\* C21: a step of /start or of the buy message that sends an invoice is the
\* plan lookup of a request whose plan is in subscription_plans with is_active
\* TRUE at that moment, and the payload of the invoice is plan_<id> of that
\* plan; a lookup that finds the plan missing or inactive sends no invoice,
\* and no other step of these handlers sends one.
C21_InvoiceOnlyForActivePlan ==
    [][\A t \in Tasks :
          InvoiceHandlerStep(t) =>
              /\ tasks'[t].reply = "invoice" =>
                     /\ tasks[t].kind = tasks'[t].kind
                     /\ tasks[t].pc = "select_plan"
                     /\ \E p \in subscription_plans :
                            /\ p.id = tasks[t].plan_id
                            /\ p.is_active
                            /\ tasks'[t].payload = <<"p", "l", "a", "n", "_">> \o str(p.id)
                            /\ payload_plan_id(tasks'[t].payload) =
                                   [ok |-> TRUE, value |-> p.id]
              /\ (/\ tasks[t].pc = "select_plan"
                  /\ ~\E p \in subscription_plans :
                         p.id = tasks[t].plan_id /\ p.is_active) =>
                     (tasks'[t].reply # "invoice" /\ tasks'[t].payload = <<>>)
      ]_vars

\* The buy message got an invoice for plan 1 and, the plan switched off since,
\* /start with the deep link of the same plan got none
C21_Witness ==
    \E t1, t2 \in Tasks :
        /\ tasks[t1].kind = "buy_plan" /\ tasks[t1].pc = "done"
        /\ tasks[t1].reply = "invoice"
        /\ tasks[t1].payload = plan_payload(1)
        /\ tasks[t2].kind = "start" /\ tasks[t2].pc = "done"
        /\ tasks[t2].reply = "hint"
        /\ PlanInactive(1)

C23_ToggleKeepsAccess ==
    [][/\ (/\ subscription_plans' # subscription_plans
           /\ Cardinality(subscription_plans') = Cardinality(subscription_plans)) =>
              /\ subscriptions' = subscriptions
              /\ \A u \in users' :
                     has_active_subscription(subscriptions', u.id, now') <=>
                         \E s \in subscriptions :
                             s.user_id = u.id /\ s.expires_at > now
              /\ \A m \in MeditationIds :
                     select_is_free(meditations', m) = select_is_free(meditations, m)
       /\ \A t \in Tasks :
              (/\ AccessStep(t) /\ tasks[t].pc = "has_active_subscription"
               /\ \E s \in subscriptions :
                      /\ s.user_id = tasks[t].user_id
                      /\ s.expires_at > now
                      /\ PlanInactive(s.plan_id)) =>
                  tasks'[t].reply = "access_true"
      ]_vars

\* An access query for an item not found free was answered true for a user
\* whose every row is of a plan switched off
C23_Witness ==
    \E t \in Tasks :
        /\ tasks[t].kind = "api_access" /\ tasks[t].pc = "done"
        /\ tasks[t].free # "True" /\ tasks[t].reply = "access_true"
        /\ \E s \in subscriptions :
               s.user_id = tasks[t].user_id /\ s.expires_at > now
        /\ \A s \in subscriptions :
               s.user_id = tasks[t].user_id => PlanInactive(s.plan_id)

\* --------------------------------------------------------------------- C24
\* A step of a handler of GET /access, its first included
AccessHandlerStep(t) == tasks'[t] # tasks[t] /\ tasks'[t].kind = "api_access"

\* C24: no step of api_access changes subscriptions, subscription_plans or
\* meditations, and none removes or changes a users row; its first step, taken
\* before the item is looked up, leaves a users row of the asking telegram_id,
\* inserting it exactly when there was none; its later steps leave users alone.
C24_AccessIsReadOnly ==
    [][\A t \in Tasks :
          AccessHandlerStep(t) =>
              /\ subscriptions' = subscriptions
              /\ subscription_plans' = subscription_plans
              /\ meditations' = meditations
              /\ meditations_seq' = meditations_seq
              /\ \A u \in users : u \in users'
              /\ IF Free(t)
                 THEN /\ tasks'[t].pc = "select_is_free"
                      /\ \E u \in users' :
                             /\ u.telegram_id = tasks'[t].telegram_id
                             /\ u.id = tasks'[t].user_id
                             /\ users' \ users \subseteq {u}
                      /\ users' # users <=>
                             users_by_telegram_id(users, tasks'[t].telegram_id) = {}
                 ELSE users' = users
      ]_vars

\* No payment was ever made and both users have a row: the rows come from
\* access queries, one of which found its item free and one found no item
C24_Witness ==
    /\ charge_seq = 0
    /\ Cardinality(users) = MaxUsers
    /\ \E t1, t2 \in Tasks :
           /\ tasks[t1].kind = "api_access" /\ tasks[t1].pc = "done"
           /\ tasks[t1].free = "True" /\ tasks[t1].reply = "access_true"
           /\ tasks[t2].kind = "api_access" /\ tasks[t2].pc = "done"
           /\ tasks[t2].free = "None" /\ tasks[t2].reply = "access_false"
           /\ tasks[t1].user_id # tasks[t2].user_id

====
